---- MODULE Spec2Model ----
(***************************************************************************)
(* State-machine model of drivers/net/phy/dp83tc81x.c, the TI DP83TC81x    *)
(* single-pair Ethernet PHY driver: strap parsing, chip bring-up, and the  *)
(* TDR cable diagnostic (start / get_status / report).                     *)
(*                                                                         *)
(* Every driver callback is one action.  The register transport of the    *)
(* host framework is the environment: each register access of a call may  *)
(* succeed or fail with a negative errno, so a driver function maps a      *)
(* context to the set of contexts it may return with, one per way the     *)
(* transport may answer.  Every access of a call is recorded in           *)
(* call.trace, everything handed to the ethtool cable-test netlink        *)
(* helpers in call.pub.  The caller collects the return value (Return)    *)
(* before it makes the next call: the driver is single-threaded.          *)
(***************************************************************************)
EXTENDS Integers, Sequences, FiniteSets, TLC

VARIABLES
    dev,          \* device registers: strap, cdcr, tdr_tc1, running, bg
    priv,         \* struct dp83tc81x_private behind phydev->priv
    bound,        \* the last probe returned 0: the framework may call the callbacks
    phase,        \* the caller's view of the cable-test session
    call,         \* the call that has just returned (NoCall once collected)
    nPub,         \* classifications published since the last start()
    nPolls,       \* get_status calls since the last start(), saturating
    sessReadFail  \* a register read failed in a get_status of this session

vars == <<dev, priv, bound, phase, call, nPub, nPolls, sessReadFail>>

(***************************************************************************)
(* Bounds of the model.                                                    *)
(***************************************************************************)
\* At most this many register accesses of one cable-test call fail.
MaxFaults == 2
\* At most this many register accesses of one bring-up call fail.
MaxInitFaults == 1
\* nPolls saturates here.
MaxPolls == 3

(***************************************************************************)
(* Program constants.                                                      *)
(***************************************************************************)
DP83TC812_PHY_ID == \H2000a271
DP83TC813_PHY_ID == \H2000a211
DP83TC814_PHY_ID == \H2000a261
\* An identifier the probe switch does not handle.
OTHER_PHY_ID == \H2000a2ff

MMD1F == \H1f
MMD1 == 1
\* Clause-22 access (phy_read / phy_write): no MMD.
C22 == 0

DP83TC81x_STRAP == \H45d
MII_DP83TC81x_SGMII_CTRL == \H608
SGMII_CONFIG_VAL == \H027B
MII_DP83TC81x_RESET_CTRL == \H1f
DP83TC81x_CDCR == \H1E
DP83TC81x_TDR_TC1 == \H310
DP83TC81x_TDR_START_BIT == \H8000
DP83TC81x_HW_RESET == \H8000
DP83TC81x_SW_RESET == \H4000
DP83TC81x_RGMII_ID_CTRL == \H602
DP83TC81x_RX_CLK_SHIFT == 2
DP83TC81x_TX_CLK_SHIFT == 1

\* Bit positions of TDR_DONE, TDR_FAIL, PEAK_DETECT, PEAK_SIGN,
\* DP83TC81x_MASTER_MODE and DP83TC81x_RGMII_IS_EN.
TDR_DONE == 1
TDR_FAIL == 0
PEAK_DETECT == 7
PEAK_SIGN == 6
DP83TC81x_MASTER_MODE == 9
DP83TC81x_RGMII_IS_EN == 7

\* enum dp83tc81x_chip_type
DP83TC812_CT == 0
DP83TC813_CT == 1
DP83TC814_CT == 2

\* errno values
EINVAL == 22
ENOMEM == 12

\* ETHTOOL_A_CABLE_RESULT_CODE_* and ETHTOOL_A_CABLE_PAIR_A
RESULT_CODE_UNSPEC == "UNSPEC"
RESULT_CODE_OK == "OK"
RESULT_CODE_OPEN == "OPEN"
RESULT_CODE_SAME_SHORT == "SAME_SHORT"
PAIR_A == "PAIR_A"

\* phydev->interface, as far as config_init tells the modes apart.
IF_MII == "MII"
IF_RGMII == "RGMII"
IF_SGMII == "SGMII"
Interfaces == {IF_MII, IF_RGMII, IF_SGMII}

(***************************************************************************)
(* Bit arithmetic on C ints (two's complement: \div and % round down).     *)
(***************************************************************************)
Bit(n, k) == (n \div (2^k)) % 2

RECURSIVE OrBits(_, _, _)
OrBits(a, b, k) ==
    IF k < 0 THEN 0
    ELSE (IF Bit(a, k) = 1 \/ Bit(b, k) = 1 THEN 2^k ELSE 0) + OrBits(a, b, k - 1)

\* a | b on 16-bit register values
BitOr(a, b) == OrBits(a, b, 15)

(***************************************************************************)
(* The init tables: {MMD, reg, val}.                                       *)
(***************************************************************************)
E(m, r, v) == [MMD |-> m, reg |-> r, val |-> v]

DP83TC812_master_cs2_0_init ==
    << E(\H1F, \H001F, \H8000), E(\H1F, \H0523, \H0001), E(\H1, \H0834, \HC001),
       E(\H1F, \H081C, \H0FE2), E(\H1F, \H0872, \H0300), E(\H1F, \H0879, \H0F00),
       E(\H1F, \H0806, \H2952), E(\H1F, \H0807, \H3361), E(\H1F, \H0808, \H3D7B),
       E(\H1F, \H083E, \H045F), E(\H1F, \H0834, \H8000), E(\H1F, \H0862, \H00E8),
       E(\H1F, \H0896, \H32CB), E(\H1F, \H003E, \H0009), E(\H1F, \H001F, \H4000),
       E(\H1F, \H0523, \H0000) >>

DP83TC812_slave_cs2_0_init ==
    << E(\H1F, \H001F, \H8000), E(\H1F, \H0523, \H0001), E(\H1, \H0834, \H8001),
       E(\H1F, \H0873, \H0821), E(\H1F, \H0896, \H22FF), E(\H1F, \H089E, \H0000),
       E(\H1F, \H001F, \H4000), E(\H1F, \H0523, \H0000) >>

DP83TC81x_tdr_config_init ==
    << E(\H1F, \H523, \H0001), E(\H1F, \H827, \H4800), E(\H1F, \H301, \H1701),
       E(\H1F, \H303, \H023D), E(\H1F, \H305, \H0015), E(\H1F, \H306, \H001A),
       E(\H1F, \H01f, \H4000), E(\H1F, \H523, \H0000), E(\H1F, \H01f, \H0000) >>

(***************************************************************************)
(* The environment's inputs.                                               *)
(***************************************************************************)
\* Errnos the register transport fails with: -EIO, -ENODEV, -ETIMEDOUT.
\* Their two low bits are 11, 01 and 10.
TransportErrors == {-5, -19, -110}

\* Strap register values: slave/master, RGMII strap off/on.
StrapValues == {\H0000, \H0080, \H0200, \H0280}

\* CDCR while the test runs (done clear) and once it is over (done set),
\* with fail and the start bit either way.
NotDoneValues == {\H0000, \H0001, \H8000, \H8001}
DoneValues == {\H0002, \H0003, \H8002, \H8003}

\* TDR_TC1 results of the diagnostic: none, short, open, no peak, high bits set.
ResultValues == {\H0000, \H0088, \H00C8, \H0048, \H01C8, \H0100, \H00BF}

\* Every value a 16-bit register can hold.
RegValues == 0 .. (2^16 - 1)

\* Values every other register reads as: all bits clear or all set.
BgValues == {\H0000, \HFFFF}

\* phy_get_internal_delay(): no delay, a delay.
IntDelays == {0, 1}

(***************************************************************************)
(* The execution context of one call.                                      *)
(***************************************************************************)
\* What the driver reads and sets of struct phy_device.
Phydev(id, iface, rxd, txd) ==
    [phy_id |-> id, interface |-> iface, rx_int_delay |-> rxd, tx_int_delay |-> txd,
     autoneg |-> "unset", speed |-> 0, duplex |-> "unset", full100 |-> FALSE]

NoPhydev == Phydev(DP83TC812_PHY_ID, IF_MII, 0, 0)

NoPriv == [chip |-> 0, is_master |-> FALSE, is_rgmii |-> FALSE, is_sgmii |-> FALSE]

\* budget: how many more accesses of the call the transport may fail.
Ctx(budget, d, p) ==
    [budget |-> budget, dev |-> d, priv |-> p, phydev |-> NoPhydev, trace |-> <<>>,
     pub |-> <<>>, ret |-> 0, code |-> "none", finished |-> FALSE]

\* The contexts body leads to from the contexts of S.
Then(S, body(_)) == UNION {body(x) : x \in S}

\* What the transport may answer to the next access: 0 (for a read, the
\* register's value), or an errno while the call's fault budget lasts.
Outcomes(c) == {0} \cup (IF c.budget > 0 THEN TransportErrors ELSE {})

\* What the device answers to a read.
DevRead(d, mmd, reg) ==
    IF mmd = MMD1F /\ reg = DP83TC81x_STRAP THEN d.strap
    ELSE IF mmd = MMD1F /\ reg = DP83TC81x_CDCR THEN d.cdcr
    ELSE IF mmd = MMD1F /\ reg = DP83TC81x_TDR_TC1 THEN d.tdr_tc1
    ELSE d.bg

\* What a write that reached the device does to it: the TDR start bit arms
\* the diagnostic and clears the status.
DevWrite(d, mmd, reg, val) ==
    IF mmd = MMD1F /\ reg = DP83TC81x_CDCR /\ Bit(val, 15) = 1
    THEN [d EXCEPT !.running = TRUE, !.cdcr = val]
    ELSE d

\* phy_write_mmd(): 0, or the errno of the transport.
PhyWriteMmd(c, mmd, reg, val) ==
    {[c EXCEPT !.trace = Append(@, [op |-> "w", mmd |-> mmd, reg |-> reg,
                                    val |-> val, ret |-> r]),
               !.dev = IF r = 0 THEN DevWrite(@, mmd, reg, val) ELSE @,
               !.budget = IF r = 0 THEN @ ELSE @ - 1,
               !.ret = r] : r \in Outcomes(c)}

\* phy_read_mmd() and phy_read(): the register's value, or the errno.
PhyReadMmd(c, mmd, reg) ==
    {[c EXCEPT !.trace = Append(@, [op |-> "r", mmd |-> mmd, reg |-> reg, val |-> 0,
                                    ret |-> IF f = 0 THEN DevRead(c.dev, mmd, reg)
                                            ELSE f]),
               !.budget = IF f = 0 THEN @ ELSE @ - 1,
               !.ret = IF f = 0 THEN DevRead(c.dev, mmd, reg) ELSE f]
       : f \in Outcomes(c)}

\* phy_set_bits_mmd(): read, and write back when the bits were not all set.
PhySetBitsMmd(c, mmd, reg, bits) ==
    Then(PhyReadMmd(c, mmd, reg), LAMBDA c1 :
      IF c1.ret < 0 THEN {c1}
      ELSE IF BitOr(c1.ret, bits) = c1.ret THEN {[c1 EXCEPT !.ret = 0]}
      ELSE PhyWriteMmd(c1, mmd, reg, BitOr(c1.ret, bits)))

Reads(t) == SelectSeq(t, LAMBDA a : a.op = "r")
Writes(t) == SelectSeq(t, LAMBDA a : a.op = "w")
IsRead(a, mmd, reg) == a.op = "r" /\ a.mmd = mmd /\ a.reg = reg
IsWrite(a, mmd, reg, val) == a.op = "w" /\ a.mmd = mmd /\ a.reg = reg /\ a.val = val

\* return ret;
Ret(c, ret) == {[c EXCEPT !.ret = ret]}

(***************************************************************************)
(* Cable diagnostic.                                                       *)
(***************************************************************************)
RECURSIVE WriteSeqFrom(_, _, _)
WriteSeqFrom(c, init_data, i) ==
    IF i > Len(init_data) THEN Ret(c, 0)
    ELSE Then(PhyWriteMmd(c, init_data[i].MMD, init_data[i].reg, init_data[i].val),
              LAMBDA c1 : IF c1.ret # 0 THEN {c1} ELSE WriteSeqFrom(c1, init_data, i + 1))

dp83tc81x_write_seq(c, init_data) == WriteSeqFrom(c, init_data, 1)

\* The results of write_seq and of the start write are dropped.
dp83tc81x_cable_test_start(c) ==
    Then(dp83tc81x_write_seq(c, DP83TC81x_tdr_config_init), LAMBDA c1 :
      Then(PhyWriteMmd(c1, MMD1F, DP83TC81x_CDCR, DP83TC81x_TDR_START_BIT),
           LAMBDA c2 : Ret(c2, 0)))

\* ethnl_cable_test_fault_length()
FaultLength(c, pair, cm) ==
    [c EXCEPT !.pub = Append(@, [kind |-> "fault_length", pair |-> pair, val |-> cm,
                                 code |-> "none"])]

\* ethnl_cable_test_result()
CableResult(c, pair, code) ==
    [c EXCEPT !.pub = Append(@, [kind |-> "result", pair |-> pair, val |-> 0,
                                 code |-> code])]

report_trans_SwapSign(c, result) ==
    IF result = 0 THEN [c EXCEPT !.code = RESULT_CODE_OK]
    ELSE IF Bit(result, PEAK_DETECT) = 1
    THEN LET length_of_fault == (result % 64) * 100
         IN  IF Bit(result, PEAK_SIGN) = 0
             THEN [FaultLength(c, PAIR_A, length_of_fault)
                       EXCEPT !.code = RESULT_CODE_OPEN]
             ELSE [FaultLength(c, PAIR_A, length_of_fault)
                       EXCEPT !.code = RESULT_CODE_SAME_SHORT]
    ELSE [c EXCEPT !.code = RESULT_CODE_UNSPEC]

\* The context after the publications, the result code returned in .code.
dp83tc81x_cable_test_report_trans(c, result) ==
    IF result = 0 THEN [c EXCEPT !.code = RESULT_CODE_OK]
    ELSE IF Bit(result, PEAK_DETECT) = 1
    THEN LET length_of_fault == (result % 64) * 100
         IN  IF Bit(result, PEAK_SIGN) = 1
             THEN [FaultLength(c, PAIR_A, length_of_fault)
                       EXCEPT !.code = RESULT_CODE_OPEN]
             ELSE [FaultLength(c, PAIR_A, length_of_fault)
                       EXCEPT !.code = RESULT_CODE_SAME_SHORT]
    ELSE [c EXCEPT !.code = RESULT_CODE_UNSPEC]

\* Publishes the decoding of c.ret for pair A.
ReportResult(c) ==
    Then({dp83tc81x_cable_test_report_trans(c, c.ret)}, LAMBDA c2 :
      Ret(CableResult(c2, PAIR_A, c2.code), 0))

report_NoErrorCheck(c) ==
    Then(PhyReadMmd(c, MMD1F, DP83TC81x_TDR_TC1), LAMBDA c1 : ReportResult(c1))

dp83tc81x_cable_test_report(c) ==
    Then(PhyReadMmd(c, MMD1F, DP83TC81x_TDR_TC1), LAMBDA c1 :
      IF c1.ret < 0 THEN {c1} ELSE ReportResult(c1))

get_status_FailIsFinished(c) ==
    Then(PhyReadMmd([c EXCEPT !.finished = FALSE], MMD1F, DP83TC81x_CDCR), LAMBDA c1 :
      IF Bit(c1.ret, TDR_DONE) = 0 THEN Ret(c1, 0)
      ELSE IF Bit(c1.ret, TDR_FAIL) = 0
      THEN dp83tc81x_cable_test_report([c1 EXCEPT !.finished = TRUE])
      ELSE Ret([c1 EXCEPT !.finished = TRUE], -EINVAL))

get_status_FailBeforeDone(c) ==
    Then(PhyReadMmd([c EXCEPT !.finished = FALSE], MMD1F, DP83TC81x_CDCR), LAMBDA c1 :
      IF Bit(c1.ret, TDR_FAIL) = 1 THEN Ret(c1, -EINVAL)
      ELSE IF Bit(c1.ret, TDR_DONE) = 0 THEN Ret(c1, 0)
      ELSE dp83tc81x_cable_test_report([c1 EXCEPT !.finished = TRUE]))

get_status_ReportFirst(c) ==
    Then(PhyReadMmd([c EXCEPT !.finished = FALSE], MMD1F, DP83TC81x_CDCR), LAMBDA c1 :
      IF Bit(c1.ret, TDR_FAIL) = 0
      THEN dp83tc81x_cable_test_report(
               [c1 EXCEPT !.finished = (Bit(c1.ret, TDR_DONE) = 1)])
      ELSE IF Bit(c1.ret, TDR_DONE) = 0 THEN Ret(c1, 0)
      ELSE Ret(c1, -EINVAL))

\* ret is not tested for an error before its bits are.
dp83tc81x_cable_test_get_status(c) ==
    Then(PhyReadMmd([c EXCEPT !.finished = FALSE], MMD1F, DP83TC81x_CDCR), LAMBDA c1 :
      IF Bit(c1.ret, TDR_DONE) = 0 THEN Ret(c1, 0)
      ELSE IF Bit(c1.ret, TDR_FAIL) = 0
      THEN dp83tc81x_cable_test_report([c1 EXCEPT !.finished = TRUE])
      ELSE Ret(c1, -EINVAL))

(***************************************************************************)
(* Straps, resets and chip bring-up.                                       *)
(***************************************************************************)
\* The flags are set when the strap bit is set, and never cleared.
dp83tc81x_read_straps(c) ==
    Then(PhyReadMmd(c, MMD1F, DP83TC81x_STRAP), LAMBDA c1 :
      IF c1.ret < 0 THEN {c1}
      ELSE Ret([c1 EXCEPT
                  !.priv.is_master =
                      IF Bit(c1.ret, DP83TC81x_MASTER_MODE) = 1 THEN TRUE ELSE @,
                  !.priv.is_rgmii =
                      IF Bit(c1.ret, DP83TC81x_RGMII_IS_EN) = 1 THEN TRUE ELSE @],
               0))

dp83tc81x_reset(c, hw_reset) ==
    Then(IF hw_reset
         THEN PhyWriteMmd(c, MMD1F, MII_DP83TC81x_RESET_CTRL, DP83TC81x_HW_RESET)
         ELSE PhyWriteMmd(c, MMD1F, MII_DP83TC81x_RESET_CTRL, DP83TC81x_SW_RESET),
         LAMBDA c1 : IF c1.ret # 0 THEN {c1} ELSE Ret(c1, 0))

dp83tc81x_phy_reset(c) ==
    Then(PhyWriteMmd(c, MMD1F, MII_DP83TC81x_RESET_CTRL, DP83TC81x_HW_RESET),
         LAMBDA c1 :
      IF c1.ret < 0 THEN {c1}
      ELSE Then(dp83tc81x_read_straps(c1), LAMBDA c2 :
             IF c2.ret # 0 THEN {c2} ELSE Ret(c2, 0)))

HandledChips == {DP83TC812_CT, DP83TC813_CT, DP83TC814_CT}

\* The body of every case of the switch on the chip: the role's table, then
\* the set-bits on 0x018B, whose result is dropped.
ChipCase(c) ==
    Then(IF c.priv.is_master
         THEN dp83tc81x_write_seq(c, DP83TC812_master_cs2_0_init)
         ELSE dp83tc81x_write_seq(c, DP83TC812_slave_cs2_0_init),
         LAMBDA c1 :
      Then(PhySetBitsMmd(c1, MMD1F, \H018B, 64), LAMBDA c2 : Ret(c2, c1.ret)))

\* The role write of chip_init; its result is overwritten by the switch.
RoleWrite(c) ==
    IF c.priv.is_master
    THEN PhyWriteMmd(c, MMD1, \H0834, \Hc001)
    ELSE PhyWriteMmd(c, MMD1, \H0834, \H8001)

dp83tc81x_chip_init(c) ==
    Then(dp83tc81x_reset(c, TRUE), LAMBDA c1 :
      IF c1.ret # 0 THEN {c1}
      ELSE Then(RoleWrite([c1 EXCEPT !.phydev.autoneg = "AUTONEG_DISABLE",
                                     !.phydev.speed = 100,
                                     !.phydev.duplex = "DUPLEX_FULL",
                                     !.phydev.full100 = TRUE]),
                LAMBDA c3 :
             IF c3.priv.chip \notin HandledChips THEN Ret(c3, -EINVAL)
             ELSE Then(ChipCase(c3), LAMBDA c4 :
                    IF c4.ret # 0 THEN {c4} ELSE dp83tc81x_reset(c4, FALSE))))

\* rgmii_delay of config_init, from the two internal delays.
RgmiiDelay(rx_int_delay, tx_int_delay) ==
    LET d0 == IF rx_int_delay <= 0 THEN 0 ELSE DP83TC81x_RX_CLK_SHIFT
    IN  IF tx_int_delay <= 0 THEN d0 - (d0 % 2)
        ELSE BitOr(d0, DP83TC81x_TX_CLK_SHIFT)

\* The RGMII block of config_init.
ConfigRgmii(c) ==
    IF /\ c.phydev.interface = IF_RGMII
       /\ RgmiiDelay(c.phydev.rx_int_delay, c.phydev.tx_int_delay) # 0
    THEN PhySetBitsMmd(c, MMD1, DP83TC81x_RGMII_ID_CTRL,
                       RgmiiDelay(c.phydev.rx_int_delay, c.phydev.tx_int_delay))
    ELSE Ret(c, 0)

\* The SGMII block of config_init: the value read is not used.
ConfigSgmii(c) ==
    IF c.phydev.interface = IF_SGMII
    THEN Then(PhyReadMmd(c, C22, MII_DP83TC81x_SGMII_CTRL), LAMBDA c1 :
           Then(PhyWriteMmd(c1, MMD1F, MII_DP83TC81x_SGMII_CTRL, SGMII_CONFIG_VAL),
                LAMBDA c2 : IF c2.ret < 0 THEN {c2} ELSE Ret(c2, 0)))
    ELSE Ret(c, 0)

dp83tc81x_config_init(c) ==
    Then(dp83tc81x_chip_init(c), LAMBDA c1 :
      IF c1.ret # 0 THEN {c1}
      ELSE Then(ConfigRgmii(c1), LAMBDA c2 :
             IF c2.ret # 0 THEN {c2} ELSE ConfigSgmii(c2)))

ChipOfId(id) ==
    IF id = DP83TC812_PHY_ID THEN DP83TC812_CT
    ELSE IF id = DP83TC813_PHY_ID THEN DP83TC813_CT
    ELSE DP83TC814_CT

HandledIds == {DP83TC812_PHY_ID, DP83TC813_PHY_ID, DP83TC814_PHY_ID}

probe_DefaultFallsThrough(c, alloc_ok) ==
    IF ~alloc_ok THEN Ret(c, -ENOMEM)
    ELSE Then(dp83tc81x_read_straps([c EXCEPT !.priv = NoPriv]), LAMBDA c1 :
           IF c1.ret # 0 THEN {c1}
           ELSE dp83tc81x_config_init(
                    [c1 EXCEPT !.priv.chip = ChipOfId(c1.phydev.phy_id)]))

\* devm_kzalloc() gives a zeroed structure or fails.
dp83tc81x_probe(c, alloc_ok) ==
    IF ~alloc_ok THEN Ret(c, -ENOMEM)
    ELSE Then(dp83tc81x_read_straps([c EXCEPT !.priv = NoPriv]), LAMBDA c1 :
           IF c1.ret # 0 THEN {c1}
           ELSE IF c1.phydev.phy_id \notin HandledIds THEN Ret(c1, -EINVAL)
           ELSE dp83tc81x_config_init(
                    [c1 EXCEPT !.priv.chip = ChipOfId(c1.phydev.phy_id)]))

(***************************************************************************)
(* Calls and their results.                                                *)
(***************************************************************************)
NoCall ==
    [op |-> "none", arg |-> <<>>, ret |-> 0, finished |-> FALSE, trace |-> <<>>,
     pub |-> <<>>, code |-> "none", priv |-> NoPriv, phydev |-> NoPhydev]

MkCall(op, arg, c) ==
    [op |-> op, arg |-> arg, ret |-> c.ret, finished |-> c.finished,
     trace |-> c.trace, pub |-> c.pub, code |-> c.code, priv |-> c.priv,
     phydev |-> c.phydev]

Results(pub) == SelectSeq(pub, LAMBDA m : m.kind = "result")
FaultLengths(pub) == SelectSeq(pub, LAMBDA m : m.kind = "fault_length")
ReadFailed(t) == \E i \in 1 .. Len(t) : t[i].op = "r" /\ t[i].ret < 0

\* The caller collects the result; the next call can be made.
Return ==
    /\ call.op # "none"
    /\ call' = NoCall
    /\ UNCHANGED <<dev, priv, bound, phase, nPub, nPolls, sessReadFail>>

(***************************************************************************)
(* The cable-test session, as the caller drives it: start() when no        *)
(* session is in flight, then get_status() until it reports finished or    *)
(* returns an error.                                                       *)
(***************************************************************************)
SessionAfterStart(ret) == IF ret = 0 THEN "Polling" ELSE "Idle"

SessionAfterPoll(ret, finished) ==
    IF ret # 0 THEN "Failed" ELSE IF finished THEN "Finished" ELSE "Polling"

CableTestStart ==
    /\ call.op = "none" /\ bound /\ phase # "Polling"
    /\ \E c \in dp83tc81x_cable_test_start(Ctx(MaxFaults, dev, priv)) :
             /\ dev' = c.dev
             /\ call' = MkCall("start", <<>>, c)
             /\ phase' = SessionAfterStart(c.ret)
    /\ nPub' = 0 /\ nPolls' = 0 /\ sessReadFail' = FALSE
    /\ UNCHANGED <<priv, bound>>

CableTestGetStatus ==
    /\ call.op = "none" /\ bound /\ phase = "Polling"
    /\ \E c \in dp83tc81x_cable_test_get_status(Ctx(MaxFaults, dev, priv)) :
             /\ dev' = c.dev
             /\ call' = MkCall("get_status", <<>>, c)
             /\ phase' = SessionAfterPoll(c.ret, c.finished)
             /\ nPub' = nPub + Len(Results(c.pub))
             /\ sessReadFail' = (sessReadFail \/ ReadFailed(c.trace))
    /\ nPolls' = IF nPolls < MaxPolls THEN nPolls + 1 ELSE nPolls
    /\ UNCHANGED <<priv, bound>>

\* The device, while the diagnostic runs: status bits other than done move.
DeviceBusy ==
    /\ dev.running
    /\ \E v \in NotDoneValues \ {dev.cdcr} : dev' = [dev EXCEPT !.cdcr = v]
    /\ UNCHANGED <<priv, bound, phase, call, nPub, nPolls, sessReadFail>>

\* The device ends the diagnostic: done is set, fail either way, and the
\* result register holds the measurement.
DeviceFinish ==
    /\ dev.running
    /\ \E v \in DoneValues, r \in ResultValues :
         dev' = [dev EXCEPT !.running = FALSE, !.cdcr = v, !.tdr_tc1 = r]
    /\ UNCHANGED <<priv, bound, phase, call, nPub, nPolls, sessReadFail>>

InitDev == [strap |-> 0, cdcr |-> 0, tdr_tc1 |-> 0, running |-> FALSE, bg |-> 0]

\* A bound device with no session yet.
TdrInit ==
    /\ dev = InitDev
    /\ priv = NoPriv
    /\ bound = TRUE
    /\ phase = "Idle"
    /\ call = NoCall
    /\ nPub = 0 /\ nPolls = 0 /\ sessReadFail = FALSE

TdrNext == CableTestStart \/ CableTestGetStatus \/ DeviceBusy \/ DeviceFinish \/ Return

TdrSpec == TdrInit /\ [][TdrNext]_vars

\* The caller keeps polling and the device ends a diagnostic it has begun.
TdrFairSpec ==
    TdrSpec /\ WF_vars(CableTestGetStatus) /\ WF_vars(Return) /\ WF_vars(DeviceFinish)

(***************************************************************************)
(* Result decoding on its own: dp83tc81x_cable_test_report_trans applied   *)
(* to every 16-bit raw result.                                             *)
(***************************************************************************)
ReportTrans ==
    /\ call.op = "none"
    /\ \E v \in RegValues :
         LET c == dp83tc81x_cable_test_report_trans(Ctx(0, dev, priv), v)
         IN  call' = MkCall("report_trans", <<v>>, c)
    /\ UNCHANGED <<dev, priv, bound, phase, nPub, nPolls, sessReadFail>>

DecodeNext == ReportTrans \/ Return

DecodeSpec == TdrInit /\ [][DecodeNext]_vars

(***************************************************************************)
(* Properties of the cable diagnostic.                                     *)
(***************************************************************************)
\* The call that has just returned is a get_status.
IsPoll == call.op = "get_status"

\* What the read of CDCR returned to get_status: a register value, or a
\* negative errno.
Observed == call.trace[1].ret

StatusRead == IsRead(call.trace[1], MMD1F, DP83TC81x_CDCR)
ReadsResultRegister ==
    \E i \in 1 .. Len(call.trace) : IsRead(call.trace[i], MMD1F, DP83TC81x_TDR_TC1)

\* C1: a get_status that reads CDCR with done (bit 1) and fail (bit 0) set
\* returns -EINVAL, leaves finished false, reads nothing but CDCR (TDR_TC1
\* in particular is not read) and publishes nothing.
C1_DoneFailIsInvalid ==
    (IsPoll /\ Observed >= 0 /\ Bit(Observed, 1) = 1 /\ Bit(Observed, 0) = 1)
        => /\ call.ret = -22
           /\ call.finished = FALSE
           /\ Len(call.trace) = 1 /\ StatusRead
           /\ ~ReadsResultRegister
           /\ call.pub = <<>>

C1_Witness ==
    IsPoll /\ Observed = 3 /\ call.ret = -22 /\ ~call.finished

C3_DonePassReports ==
    (IsPoll /\ Observed >= 0 /\ Bit(Observed, 1) = 1 /\ Bit(Observed, 0) = 0)
        => /\ call.finished = TRUE
           /\ Len(call.trace) = 2
           /\ IsRead(call.trace[2], MMD1F, DP83TC81x_TDR_TC1)
           /\ LET r == call.trace[2].ret
              IN  /\ r >= 0 => /\ Len(Results(call.pub)) = 1
                               /\ Results(call.pub)[1].pair = "PAIR_A"
                               /\ call.pub[Len(call.pub)].kind = "result"
                               /\ call.ret = 0
                  /\ r < 0 => call.ret = r /\ call.pub = <<>>

\* The result register read fails after done was seen.
C3_Witness ==
    IsPoll /\ Observed = 2 /\ Len(call.trace) = 2 /\ call.trace[2].ret = -110
        /\ call.finished

\* C5: when the read of CDCR fails with errno e, get_status returns e,
\* leaves finished false, does not read TDR_TC1 and publishes nothing.
C5_StatusReadErrorVerbatim ==
    (IsPoll /\ Observed < 0)
        => /\ call.ret = Observed
           /\ call.finished = FALSE
           /\ ~ReadsResultRegister
           /\ call.pub = <<>>

\* C9: in start(), the TDR start bit is written to CDCR only after all nine
\* entries of DP83TC81x_tdr_config_init were written successfully, in order.
C9_StartAfterFullConfig ==
    call.op = "start" =>
        \A i \in 1 .. Len(call.trace) :
            IsWrite(call.trace[i], MMD1F, DP83TC81x_CDCR, DP83TC81x_TDR_START_BIT)
                => /\ i = Len(DP83TC81x_tdr_config_init) + 1
                   /\ \A j \in 1 .. Len(DP83TC81x_tdr_config_init) :
                        /\ IsWrite(call.trace[j], DP83TC81x_tdr_config_init[j].MMD,
                                   DP83TC81x_tdr_config_init[j].reg,
                                   DP83TC81x_tdr_config_init[j].val)
                        /\ call.trace[j].ret = 0

\* C7, the states of a session in which no register read has failed: no
\* classification is published while polling, every poll before the end
\* returns 0 with finished false, Done-Pass is a poll that returns 0 with
\* finished true and the session's one classification, Done-Fail is a poll
\* that returns an error with finished false and no classification.
C7_SessionStates ==
    ~sessReadFail =>
        /\ phase = "Polling" =>
             /\ nPub = 0
             /\ IsPoll => call.ret = 0 /\ ~call.finished /\ call.pub = <<>>
        /\ phase = "Finished" =>
             /\ nPub = 1
             /\ IsPoll => /\ call.ret = 0 /\ call.finished
                          /\ Len(Results(call.pub)) = 1
        /\ phase = "Failed" =>
             /\ nPub = 0
             /\ IsPoll => call.ret < 0 /\ ~call.finished /\ call.pub = <<>>

C4_Decode ==
    call.op = "report_trans" =>
        LET v == call.arg[1]
            peak == (v \div 128) % 2 = 1
            sign == (v \div 64) % 2 = 1
            low == dp83tc81x_cable_test_report_trans(Ctx(0, dev, priv), v % 256)
        IN  /\ v = 0 => call.code = "OK" /\ call.pub = <<>>
            /\ peak =>
                 /\ call.code = IF sign THEN "OPEN" ELSE "SAME_SHORT"
                 /\ call.pub = << [kind |-> "fault_length", pair |-> "PAIR_A",
                                   val |-> (v - 64 * (v \div 64)) * 100,
                                   code |-> "none"] >>
                 /\ call.code = low.code /\ call.pub = low.pub
            /\ (v # 0 /\ ~peak) => call.code = "UNSPEC" /\ call.pub = <<>>

\* 0x01C8: bit 8 set, peak and sign set, magnitude 8.
C4_Witness ==
    /\ call.op = "report_trans" /\ call.arg = <<456>>
    /\ call.code = "OPEN" /\ Len(call.pub) = 1 /\ call.pub[1].val = 800

(***************************************************************************)
(* Bring-up: probe, the soft_reset and config_init callbacks, and          *)
(* dp83tc81x_chip_init applied on its own to every value of its chip       *)
(* field.                                                                  *)
(***************************************************************************)
PhyIds == HandledIds \cup {OTHER_PHY_ID}

\* phydev->interface and the two internal delays, the delays only where
\* config_init asks for them.
Phydevs(id) ==
    {Phydev(id, IF_MII, 0, 0), Phydev(id, IF_SGMII, 0, 0)}
        \cup {Phydev(id, IF_RGMII, rxd, txd) : rxd \in IntDelays, txd \in IntDelays}

ProbeNoMem ==
    /\ call.op = "none" /\ ~bound
    /\ \E id \in PhyIds :
         \E c \in dp83tc81x_probe(
                      [Ctx(MaxInitFaults, dev, priv) EXCEPT !.phydev.phy_id = id], FALSE) :
           call' = MkCall("probe", <<0>>, c)
    /\ UNCHANGED <<dev, priv, bound, phase, nPub, nPolls, sessReadFail>>

\* A failed probe leaves no private structure behind: devm frees it.
Probe ==
    /\ call.op = "none" /\ ~bound
    /\ \E id \in PhyIds :
         \E pd \in Phydevs(id) :
           \E c \in dp83tc81x_probe(
                        [Ctx(MaxInitFaults, dev, priv) EXCEPT !.phydev = pd], TRUE) :
               /\ call' = MkCall("probe", <<1>>, c)
               /\ dev' = c.dev
               /\ bound' = (c.ret = 0)
               /\ priv' = IF c.ret = 0 THEN c.priv ELSE NoPriv
    /\ UNCHANGED <<phase, nPub, nPolls, sessReadFail>>

SoftReset ==
    /\ call.op = "none" /\ bound
    /\ \E c \in dp83tc81x_phy_reset(Ctx(MaxInitFaults, dev, priv)) :
             /\ call' = MkCall("soft_reset", <<>>, c)
             /\ dev' = c.dev
             /\ priv' = c.priv
    /\ UNCHANGED <<bound, phase, nPub, nPolls, sessReadFail>>

ConfigInit ==
    /\ call.op = "none" /\ bound
    /\ \E pd \in Phydevs(DP83TC812_PHY_ID) :
         \E c \in dp83tc81x_config_init(
                      [Ctx(MaxInitFaults, dev, priv) EXCEPT !.phydev = pd]) :
               /\ call' = MkCall("config_init", <<>>, c)
               /\ dev' = c.dev
               /\ priv' = c.priv
    /\ UNCHANGED <<bound, phase, nPub, nPolls, sessReadFail>>

\* dp83tc81x_chip_init on a private structure of its own, the chip field
\* over the three variants and a value the switch does not handle.
ChipInit ==
    /\ call.op = "none" /\ ~bound
    /\ \E chip \in HandledChips \cup {3}, is_master \in BOOLEAN :
         \E c \in dp83tc81x_chip_init(
                      Ctx(MaxInitFaults, dev,
                          [NoPriv EXCEPT !.chip = chip, !.is_master = is_master])) :
             /\ call' = MkCall("chip_init", <<chip>>, c)
             /\ dev' = c.dev
    /\ UNCHANGED <<priv, bound, phase, nPub, nPolls, sessReadFail>>

\* The board: the device samples its strap pins at every reset, and its
\* other registers read as all clear or all set.
Restrap ==
    /\ call.op = "none"
    /\ \E v \in StrapValues, b \in BgValues :
         /\ <<v, b>> # <<dev.strap, dev.bg>>
         /\ dev' = [dev EXCEPT !.strap = v, !.bg = b]
    /\ UNCHANGED <<priv, bound, phase, call, nPub, nPolls, sessReadFail>>

\* An unbound device.
BringupInit ==
    /\ dev \in {[InitDev EXCEPT !.strap = v, !.bg = b] : v \in StrapValues, b \in BgValues}
    /\ priv = NoPriv
    /\ bound = FALSE
    /\ phase = "Idle"
    /\ call = NoCall
    /\ nPub = 0 /\ nPolls = 0 /\ sessReadFail = FALSE

BringupNext ==
    ProbeNoMem \/ Probe \/ SoftReset \/ ConfigInit \/ ChipInit \/ Restrap \/ Return

BringupSpec == BringupInit /\ [][BringupNext]_vars

(***************************************************************************)
(* Properties of the bring-up.                                             *)
(***************************************************************************)
\* A failed register write, or a failed read of a read-modify-write.
FailedStep(a) ==
    /\ a.ret < 0
    /\ \/ a.op = "w"
       \/ IsRead(a, MMD1F, 395)
       \/ IsRead(a, MMD1, DP83TC81x_RGMII_ID_CTRL)

\* C6: in chip_init and config_init, once a register write or a
\* read-modify-write has failed with e, no later register write is issued
\* and the call returns e.
C6_AbortOnFirstFailure ==
    call.op \in {"chip_init", "config_init"} =>
        \A i \in 1 .. Len(call.trace) :
            FailedStep(call.trace[i])
                => /\ \A j \in (i + 1) .. Len(call.trace) : call.trace[j].op # "w"
                   /\ call.ret = call.trace[i].ret

UnhandledProbe == call.op = "probe" /\ call.phydev.phy_id \notin HandledIds
UnhandledChipInit == call.op = "chip_init" /\ call.priv.chip \notin {0, 1, 2}
SoftResetWritten ==
    \E i \in 1 .. Len(call.trace) : IsWrite(call.trace[i], MMD1F, 31, 16384)

\* C8 as stated: probe with an identifier that is none of the three handled
\* ones returns -EINVAL and writes no register; chip_init with an unhandled
\* chip variant returns -EINVAL and does not write the soft reset.
C8_UnhandledIsEinval ==
    /\ UnhandledProbe => call.ret = -22 /\ Writes(call.trace) = <<>>
    /\ UnhandledChipInit => call.ret = -22 /\ ~SoftResetWritten

\* C8, amended: probe with an identifier that is none of the three handled
\* ones fails and writes no register; it returns -ENOMEM when the allocation
\* failed, the strap read's errno when that read failed, and -EINVAL
\* otherwise.  chip_init with an unhandled chip variant does not write the
\* soft reset; it returns the errno of the hardware reset write when that
\* write failed, and -EINVAL otherwise.
C8_UnhandledAborts ==
    /\ UnhandledProbe =>
         /\ Writes(call.trace) = <<>>
         /\ call.ret < 0
         /\ call.ret = IF call.arg = <<0>> THEN -12
                       ELSE IF call.trace[1].ret < 0 THEN call.trace[1].ret
                       ELSE -22
         /\ call.arg = <<1>> =>
              Len(call.trace) = 1 /\ IsRead(call.trace[1], MMD1F, DP83TC81x_STRAP)
    /\ UnhandledChipInit =>
         /\ ~SoftResetWritten
         /\ call.ret = IF call.trace[1].ret < 0 THEN call.trace[1].ret ELSE -22

\* The allocation and the strap read succeed, the identifier is unhandled.
C8_Witness ==
    /\ UnhandledProbe /\ call.arg = <<1>> /\ call.trace[1].ret >= 0
    /\ call.ret = -22

\* C10: in probe and soft reset, after a successful read of the strap
\* register is_master is bit 9 and is_rgmii is bit 7 of the value read; after
\* a failed one both flags are what they were before the call (in probe,
\* those of the zeroed structure).
C10_FlagsTrackStraps ==
    [][(call.op = "none" /\ call'.op \in {"probe", "soft_reset"})
        => \A i \in 1 .. Len(call'.trace) :
             IsRead(call'.trace[i], MMD1F, DP83TC81x_STRAP)
               => LET v == call'.trace[i].ret
                      before == IF call'.op = "probe" THEN NoPriv ELSE priv
                  IN  IF v >= 0
                      THEN /\ call'.priv.is_master = (Bit(v, 9) = 1)
                           /\ call'.priv.is_rgmii = (Bit(v, 7) = 1)
                      ELSE /\ call'.priv.is_master = before.is_master
                           /\ call'.priv.is_rgmii = before.is_rgmii]_vars

====
